---- MODULE Spec2Model ----
(***************************************************************************)
(* Fitch parsimony reconstruction of a binary character on a rooted tree   *)
(* (src/main/tree.py): fitch, _fitch, _fitch_pass1, _fitch_pass2,          *)
(* _unique_nodes and _get_pseudo_root.                                     *)
(*                                                                         *)
(* A tree object is a record of per-node sequences indexed by node number: *)
(* parent (0 for the root), name, state, operation, gain and loss.  Nodes  *)
(* are numbered in preorder, so the children of a node, taken by           *)
(* increasing number, are in the order of the node's children list.        *)
(* Names are integers: a leaf's name is the negation of its number (leaf   *)
(* names are unique), an internal node's name is a natural number, 0       *)
(* standing for the empty name that ete3 gives an unnamed node.            *)
(***************************************************************************)
EXTENDS Integers, Sequences, FiniteSets

VARIABLES heap, tree, pc, min_changes, ambiguous_nodes, annot_trees,
          evaluated, accepted, pass1_state, pre, rets

vars == <<heap, tree, pc, min_changes, ambiguous_nodes, annot_trees,
          evaluated, accepted, pass1_state, pre, rets>>

\* Largest number of nodes of the exhaustively enumerated input trees.
MaxNodes == 6
\* Largest number of internal nodes of the deep (stem) input trees.
MaxStem == 11
\* Number of calls of fitch made on the same input tree.
MaxCalls == 2
\* The ambiguity cutoff of _fitch: `if r > 10`.
MaxAmbiguous == 10

\* The caller's tree object is the first object of the heap.
InputRef == 1

Undefined == {}
NoOperation == "none"

-----------------------------------------------------------------------------
(* The tree model: the part of ete3.TreeNode the functions use.            *)

Nodes(t) == 1..Len(t.parent)

RECURSIVE SortedSeq(_)
SortedSeq(S) ==
    IF S = {} THEN <<>>
    ELSE LET m == CHOOSE x \in S : \A y \in S : x <= y
         IN  <<m>> \o SortedSeq(S \ {m})

\* node.children
children(t, node) == SortedSeq({j \in Nodes(t) : t.parent[j] = node})

is_leaf(t, node) == \A j \in Nodes(t) : t.parent[j] # node

is_root(t, node) == t.parent[node] = 0

Root(t) == CHOOSE i \in Nodes(t) : t.parent[i] = 0

Leaves(t) == {i \in Nodes(t) : is_leaf(t, i)}

Internals(t) == Nodes(t) \ Leaves(t)

\* tree.traverse('preorder') and tree.traverse('postorder')
RECURSIVE preorder(_, _), preorderAll(_, _)
preorder(t, node) == <<node>> \o preorderAll(t, children(t, node))
preorderAll(t, kids) ==
    IF kids = <<>> THEN <<>>
    ELSE preorder(t, Head(kids)) \o preorderAll(t, Tail(kids))

RECURSIVE postorder(_, _), postorderAll(_, _)
postorder(t, node) == postorderAll(t, children(t, node)) \o <<node>>
postorderAll(t, kids) ==
    IF kids = <<>> THEN <<>>
    ELSE postorder(t, Head(kids)) \o postorderAll(t, Tail(kids))

\* node.get_ancestors() with the node itself in front
RECURSIVE AncOrSelf(_, _)
AncOrSelf(p, i) == IF i = 0 THEN {} ELSE {i} \cup AncOrSelf(p, p[i])

RECURSIVE Depth(_, _)
Depth(p, i) == IF p[i] = 0 THEN 0 ELSE 1 + Depth(p, p[i])

\* set.intersection(*sets) and set.union(*sets) of a non-empty list of sets
RECURSIVE IntersectAll(_)
IntersectAll(sets) ==
    IF Len(sets) = 1 THEN sets[1]
    ELSE sets[1] \cap IntersectAll(Tail(sets))

RECURSIVE UnionAll(_)
UnionAll(sets) ==
    IF Len(sets) = 1 THEN sets[1]
    ELSE sets[1] \cup UnionAll(Tail(sets))

DescStates(t, node) == [k \in DOMAIN children(t, node) |-> t.state[children(t, node)[k]]]

-----------------------------------------------------------------------------
(* fitch: the deep copy the reconstruction works on.                       *)

\* A copy that is no copy: the caller's object itself is worked on.
SameObject(h, ref) == [heap |-> h, ref |-> ref]

\* tree.copy('deepcopy'): a new object with the same content.
DeepCopy(h, ref) == [heap |-> Append(h, h[ref]), ref |-> Len(h) + 1]

-----------------------------------------------------------------------------
(* _fitch_pass1: bottom-up state sets and the change counter.              *)

Pass1Node(t, node) ==
    LET desc_states  == DescStates(t, node)
        shared_state == IntersectAll(desc_states)
    IN  IF shared_state # {}
        THEN [state |-> shared_state, operation |-> "intersect", charge |-> 0]
        ELSE [state |-> UnionAll(desc_states), operation |-> "union", charge |-> 1]

RECURSIVE Pass1Loop(_, _, _)
Pass1Loop(t, order, mc) ==
    IF order = <<>> THEN [tree |-> t, min_changes |-> mc]
    ELSE LET node == Head(order)
             t1   == [t EXCEPT !.gain[node] = FALSE, !.loss[node] = FALSE]
         IN  IF is_leaf(t, node) THEN Pass1Loop(t1, Tail(order), mc)
             ELSE LET r  == Pass1Node(t1, node)
                      t2 == [t1 EXCEPT !.state[node] = r.state,
                                       !.operation[node] = r.operation]
                  IN  Pass1Loop(t2, Tail(order), mc + r.charge)

fitch_pass1(t) == Pass1Loop(t, postorder(t, Root(t)), 0)

-----------------------------------------------------------------------------
(* _fitch_pass2: top-down refinement and the ambiguous-node records.       *)

BothRecords(node) == <<[node |-> node, state |-> 0], [node |-> node, state |-> 1]>>

\* Refinement that keeps the node's own set when the parent's is inside it.
RefineStateKeepsOwn(mra_state, node_state, operation, desc_union) ==
    IF mra_state \subseteq node_state THEN node_state
    ELSE IF operation = "union" THEN mra_state \cup node_state
    ELSE node_state \cup (mra_state \cap desc_union)

\* The refined state of a non-root internal node; mra is its parent.
RefineState(mra_state, node_state, operation, desc_union) ==
    IF mra_state \subseteq node_state THEN node_state \cap mra_state
    ELSE IF operation = "union" THEN mra_state \cup node_state
    ELSE node_state \cup (mra_state \cap desc_union)

RECURSIVE Pass2Loop(_, _, _)
Pass2Loop(t, order, amb) ==
    IF order = <<>> THEN [tree |-> t, ambiguous_nodes |-> amb]
    ELSE LET node == Head(order)
         IN  IF is_leaf(t, node) THEN Pass2Loop(t, Tail(order), amb)
             ELSE IF is_root(t, node)
             THEN Pass2Loop(t, Tail(order),
                     IF Cardinality(t.state[node]) > 1
                     THEN amb \o BothRecords(node) ELSE amb)
             ELSE LET mra == t.parent[node]
                      updated_state ==
                          RefineState(t.state[mra], t.state[node], t.operation[node],
                                      UnionAll(DescStates(t, node)))
                      t1 == [t EXCEPT !.state[node] = updated_state]
                  IN  Pass2Loop(t1, Tail(order),
                         IF Cardinality(updated_state) > 1
                         THEN amb \o BothRecords(node) ELSE amb)

fitch_pass2(t) == Pass2Loop(t, preorder(t, Root(t)), <<>>)

-----------------------------------------------------------------------------
(* _fitch: the ambiguity resolver.                                         *)

\* {node for node, _ in ambiguous_nodes}
AmbiguousSet(amb) == {amb[i].node : i \in DOMAIN amb}

\* r = len({node for node, _ in ambiguous_nodes})
DistinctCount(amb) == Cardinality(AmbiguousSet(amb))

\* The cutoff taken one too low.
ExceedsBoundFromTen(r) == r >= MaxAmbiguous

\* `if r > 10`
ExceedsBound(r) == r > MaxAmbiguous

\* combinations(ambiguous_nodes, r): a combination is the set of the positions
\* it takes from the list; its records are read by increasing position.
Combinations(amb, r) == {S \in SUBSET (DOMAIN amb) : Cardinality(S) = r}

\* A filter that compares the records, which are always distinct.
unique_records(amb, S) == Cardinality({amb[i] : i \in S}) = Cardinality(S)

\* _unique_nodes(tree_state), with nodes compared by identity
unique_nodes(amb, S) == Cardinality({amb[i].node : i \in S}) = Cardinality(S)

\* node_state = {node.name: state for node, state in tree_state}: for a name
\* that occurs more than once the last record wins.
NodeState(t, amb, S) ==
    [nm \in {t.name[amb[i].node] : i \in S} |->
        LET last == CHOOSE i \in S :
                       /\ t.name[amb[i].node] = nm
                       /\ \A j \in S : t.name[amb[j].node] = nm => j <= i
        IN  amb[last].state]

\* The state the walk reads for a node: node_state[name] if the name is a
\* key, else the only element of node.state.
EffState(t, ns, node) ==
    IF t.name[node] \in DOMAIN ns THEN ns[t.name[node]]
    ELSE CHOOSE v \in t.state[node] : TRUE

\* A walk that does not charge the root's own gain.
NoRootCharge(t, ns) == 0

\* `if node.is_root() and state == 1: tot_changes += 1`
RootCharge(t, ns) == IF EffState(t, ns, Root(t)) = 1 THEN 1 ELSE 0

\* The preorder walk over the internal nodes and their children: every
\* non-root node is visited once as a child of its parent.
Evaluate(t, amb, S) ==
    LET ns      == NodeState(t, amb, S)
        eff     == [i \in Nodes(t) |-> EffState(t, ns, i)]
        gained  == {d \in Nodes(t) : t.parent[d] # 0 /\ eff[t.parent[d]] = 0 /\ eff[d] = 1}
        lost    == {d \in Nodes(t) : t.parent[d] # 0 /\ eff[t.parent[d]] = 1 /\ eff[d] = 0}
        charge  == RootCharge(t, ns)
    IN  [node_state  |-> ns,
         gain        |-> {t.name[d] : d \in gained} \cup
                         (IF charge = 1 THEN {t.name[Root(t)]} ELSE {}),
         loss        |-> {t.name[d] : d \in lost},
         tot_changes |-> charge + Cardinality(gained) + Cardinality(lost)]

\* The copy made for an accepted assignment, flagged and resolved by name.
Annotate(t, ev) ==
    [t EXCEPT
        !.gain  = [i \in Nodes(t) |-> IF t.name[i] \in ev.gain THEN TRUE ELSE t.gain[i]],
        !.loss  = [i \in Nodes(t) |-> IF t.name[i] \in ev.loss THEN TRUE ELSE t.loss[i]],
        !.state = [i \in Nodes(t) |->
                     IF t.name[i] \in DOMAIN ev.node_state
                     THEN {ev.node_state[t.name[i]]} ELSE t.state[i]]]

\* The copy made when no node is ambiguous.
AnnotateDirect(t) ==
    [t EXCEPT
        !.gain = [i \in Nodes(t) |->
                    IF t.parent[i] # 0 /\ t.state[t.parent[i]] = {0} /\ t.state[i] = {1}
                    THEN TRUE ELSE t.gain[i]],
        !.loss = [i \in Nodes(t) |->
                    IF t.parent[i] # 0 /\ t.state[t.parent[i]] = {1} /\ t.state[i] = {0}
                    THEN TRUE ELSE t.loss[i]]]

-----------------------------------------------------------------------------
(* _get_pseudo_root and the origin veto.                                   *)

\* tree.get_common_ancestor(tree.get_leaf_names()): the deepest node above
\* every leaf; with a single leaf ete3 takes the ancestor of the leaf and
\* the node the method is called on.
get_pseudo_root(t) ==
    LET targets == IF Cardinality(Leaves(t)) = 1 THEN Leaves(t) \cup {Root(t)}
                   ELSE Leaves(t)
        common  == {a \in Nodes(t) : \A l \in targets : a \in AncOrSelf(t.parent, l)}
    IN  CHOOSE a \in common : \A b \in common : Depth(t.parent, b) <= Depth(t.parent, a)

\* A return without the veto.
NoVeto(t, trees) == trees

\* `if pseudo_root.state == {1}: annot_trees = set()`
OriginVeto(t, trees) == IF t.state[get_pseudo_root(t)] = {1} THEN {} ELSE trees

-----------------------------------------------------------------------------
(* The input trees.                                                        *)

\* The ordered tree shapes with n nodes, numbered in preorder: node i hangs
\* from node i-1 or from one of its ancestors.
RECURSIVE Shapes(_)
Shapes(n) ==
    IF n = 1 THEN {<<0>>}
    ELSE {Append(p, a) : <<p, a>> \in
             {<<q, b>> \in Shapes(n - 1) \X (1..(n - 1)) : b \in AncOrSelf(q, n - 1)}}

\* The namings of k internal nodes up to renaming: a name is one already used
\* or the next unused one, so every pattern of shared names occurs once.
RECURSIVE Namings(_)
Namings(k) ==
    IF k = 0 THEN {<<>>}
    ELSE {Append(s, v) : <<s, v>> \in
             {<<u, w>> \in Namings(k - 1) \X (0..(k - 1)) :
                 w = 0 \/ \E j \in DOMAIN u : u[j] >= w - 1}}

MakeTree(p, leaf_state, naming) ==
    LET shape == [parent |-> p]
        ints  == SortedSeq(Internals(shape))
        pos(i) == CHOOSE k \in DOMAIN ints : ints[k] = i
    IN  [parent    |-> p,
         name      |-> [i \in DOMAIN p |->
                          IF is_leaf(shape, i) THEN 0 - i ELSE naming[pos(i)]],
         state     |-> [i \in DOMAIN p |->
                          IF is_leaf(shape, i) THEN {leaf_state[i]} ELSE Undefined],
         operation |-> [i \in DOMAIN p |-> NoOperation],
         gain      |-> [i \in DOMAIN p |-> FALSE],
         loss      |-> [i \in DOMAIN p |-> FALSE]]

SmallTrees ==
    UNION {
      UNION {
        {MakeTree(p, ls, nm) :
            ls \in [Leaves([parent |-> p]) -> {0, 1}],
            nm \in Namings(Cardinality(Internals([parent |-> p])))}
        : p \in Shapes(n)}
      : n \in 1..MaxNodes}

\* A stem of k internal nodes, each the only child of the one above, the
\* lowest one carrying two leaves.
StemShape(k) == [i \in 1..(k + 2) |-> IF i <= k THEN i - 1 ELSE k]

StemTrees ==
    UNION {
        {MakeTree(StemShape(k), ls, nm) :
            ls \in [{k + 1, k + 2} -> {0, 1}],
            nm \in {[i \in 1..k |-> 0], [i \in 1..k |-> i - 1]}}
        : k \in MaxAmbiguous..MaxStem}

InputTrees == SmallTrees \cup StemTrees

-----------------------------------------------------------------------------

Init ==
    /\ \E t \in InputTrees : heap = <<t>> /\ pre = t
    /\ tree = InputRef
    /\ pc = "idle"
    /\ min_changes = 0
    /\ ambiguous_nodes = <<>>
    /\ annot_trees = {}
    /\ evaluated = {}
    /\ accepted = {}
    /\ pass1_state = <<>>
    /\ rets = <<>>

\* fitch(tree): copy the tree and enter _fitch with an empty result set.
Fitch ==
    /\ pc \in {"idle", "done"}
    /\ Len(rets) < MaxCalls
    /\ LET c == DeepCopy(<<heap[InputRef]>>, InputRef)
       IN  heap' = c.heap /\ tree' = c.ref
    /\ pre' = heap[InputRef]
    /\ annot_trees' = {}
    /\ evaluated' = {}
    /\ accepted' = {}
    /\ min_changes' = 0
    /\ ambiguous_nodes' = <<>>
    /\ pass1_state' = <<>>
    /\ pc' = "pass1"
    /\ UNCHANGED rets

FitchPass1 ==
    /\ pc = "pass1"
    /\ LET r == fitch_pass1(heap[tree])
       IN  /\ heap' = [heap EXCEPT ![tree] = r.tree]
           /\ min_changes' = r.min_changes
           /\ pass1_state' = r.tree.state
    /\ pc' = "pass2"
    /\ UNCHANGED <<tree, ambiguous_nodes, annot_trees, evaluated, accepted, pre, rets>>

FitchPass2 ==
    /\ pc = "pass2"
    /\ LET r == fitch_pass2(heap[tree])
       IN  /\ heap' = [heap EXCEPT ![tree] = r.tree]
           /\ ambiguous_nodes' = r.ambiguous_nodes
    /\ pc' = "resolve"
    /\ UNCHANGED <<tree, min_changes, annot_trees, evaluated, accepted, pass1_state, pre, rets>>

\* More ambiguous nodes than the cutoff: return at once.
BoundExit ==
    /\ pc = "resolve"
    /\ ambiguous_nodes # <<>>
    /\ ExceedsBound(DistinctCount(ambiguous_nodes))
    /\ rets' = Append(rets, [min_changes |-> min_changes, annot_trees |-> annot_trees])
    /\ pc' = "done"
    /\ UNCHANGED <<heap, tree, min_changes, ambiguous_nodes, annot_trees, evaluated,
                   accepted, pass1_state, pre>>

\* The loop over the combinations of the ambiguous-node records.  A tree
\* object of the result set is identified by the combination it was made for.
Enumerate ==
    /\ pc = "resolve"
    /\ ambiguous_nodes # <<>>
    /\ ~ExceedsBound(DistinctCount(ambiguous_nodes))
    /\ LET t   == heap[tree]
           amb == ambiguous_nodes
           r   == DistinctCount(amb)
           run == {[combo |-> S, ev |-> Evaluate(t, amb, S)] :
                      S \in {C \in Combinations(amb, r) : unique_nodes(amb, C)}}
           opt == {[id |-> e.combo, tree |-> Annotate(t, e.ev)] :
                      e \in {x \in run : x.ev.tot_changes = min_changes}}
       IN  /\ evaluated' = {[combo |-> e.combo, tot_changes |-> e.ev.tot_changes] : e \in run}
           /\ annot_trees' = opt
           /\ accepted' = opt
    /\ pc' = "veto"
    /\ UNCHANGED <<heap, tree, min_changes, ambiguous_nodes, pass1_state, pre, rets>>

\* No ambiguous node: one tree, flagged from the resolved states.
Direct ==
    /\ pc = "resolve"
    /\ ambiguous_nodes = <<>>
    /\ LET one == {[id |-> {}, tree |-> AnnotateDirect(heap[tree])]}
       IN  annot_trees' = one /\ accepted' = one
    /\ pc' = "veto"
    /\ UNCHANGED <<heap, tree, min_changes, ambiguous_nodes, evaluated, pass1_state,
                   pre, rets>>

\* The origin veto and the return.
Veto ==
    /\ pc = "veto"
    /\ LET kept == OriginVeto(heap[tree], annot_trees)
       IN  /\ annot_trees' = kept
           /\ rets' = Append(rets, [min_changes |-> min_changes, annot_trees |-> kept])
    /\ pc' = "done"
    /\ UNCHANGED <<heap, tree, min_changes, ambiguous_nodes, evaluated, accepted,
                   pass1_state, pre>>

Next == Fitch \/ FitchPass1 \/ FitchPass2 \/ BoundExit \/ Enumerate \/ Direct \/ Veto

Spec == Init /\ [][Next]_vars

-----------------------------------------------------------------------------
(* What the properties read.                                               *)

\* The working tree of the current call, as Pass 1 and Pass 2 left it.
Work == heap[tree]

\* The result of the latest call that has returned.
Last == rets[Len(rets)]

\* R: the number of distinct ambiguous nodes Pass 2 reported.
R == Cardinality({ambiguous_nodes[i].node : i \in DOMAIN ambiguous_nodes})

Returned == pc = "done"

Flagged(t) == Cardinality({i \in Nodes(t) : t.gain[i]}) +
              Cardinality({i \in Nodes(t) : t.loss[i]})

DifferingEdges(t) ==
    Cardinality({i \in Nodes(t) : t.parent[i] # 0 /\ t.state[i] # t.state[t.parent[i]]})

DistinctNames(t) == \A i, j \in Nodes(t) : t.name[i] = t.name[j] => i = j

\* The least number of edges with differing endpoint states over all
\* assignments of a value to each internal node, the leaves keeping theirs.
TrueMinimum(t) ==
    LET cost(f) ==
            LET val(i) == IF i \in Leaves(t) THEN CHOOSE v \in t.state[i] : TRUE ELSE f[i]
            IN  Cardinality({i \in Nodes(t) : t.parent[i] # 0 /\ val(i) # val(t.parent[i])})
        costs == {cost(f) : f \in [Internals(t) -> {0, 1}]}
    IN  CHOOSE c \in costs : \A d \in costs : c <= d

\* The assignment a combination stands for: the value it gives each node.
AssignOf(S) ==
    [n \in {ambiguous_nodes[i].node : i \in S} |->
        ambiguous_nodes[CHOOSE i \in S : ambiguous_nodes[i].node = n].state]

\* The contents of a result set, each with the number of tree objects
\* carrying it.
BagOf(trees) ==
    [c \in {a.tree : a \in trees} |-> Cardinality({a \in trees : a.tree = c})]

Pow2(n) == Cardinality(SUBSET (1..n))

-----------------------------------------------------------------------------
(* The properties.                                                         *)

\* C1: for an input with 1 to 10 distinct ambiguous nodes, shared or empty
\* internal names allowed, every returned tree has as many nodes flagged
\* gain plus nodes flagged loss as the returned min_changes.
C1_EventCountIsMinChanges ==
    (Returned /\ R >= 1 /\ R <= MaxAmbiguous) =>
        \A a \in Last.annot_trees : Flagged(a.tree) = Last.min_changes

\* C2: with no ambiguous node, the one returned tree has exactly min_changes
\* flagged nodes, which is its number of edges with differing states.
C2_DirectCountIsMinChanges ==
    (Returned /\ R = 0) =>
        \A a \in Last.annot_trees :
            /\ Flagged(a.tree) = Last.min_changes
            /\ DifferingEdges(a.tree) = Last.min_changes

\* C3: the min_changes of Pass 1 is the true minimum number of edges with
\* differing states over all assignments to the internal nodes.
C3_MinChangesIsTrueMinimum ==
    pc \in {"pass2", "resolve", "veto", "done"} => min_changes = TrueMinimum(pre)

\* C4: when the pseudo-root's state is {1} after Pass 2, the returned set is
\* empty and the returned min_changes is the value of Pass 1.
C4_OriginVeto ==
    (Returned /\ Work.state[get_pseudo_root(Work)] = {1}) =>
        /\ Last.annot_trees = {}
        /\ Last.min_changes = fitch_pass1(pre).min_changes

C4_Witness ==
    /\ Returned
    /\ Work.state[get_pseudo_root(Work)] = {1}
    /\ accepted # {}
    /\ Last.annot_trees = {}
    /\ Last.min_changes > 0

\* C5: with more than 10 distinct ambiguous nodes no assignment is evaluated,
\* the returned set is empty and min_changes is the value of Pass 1; with 1
\* to 10 of them the 2^R assignments are evaluated.
C5_BoundEnforcement ==
    Returned =>
        /\ R > MaxAmbiguous =>
              /\ evaluated = {}
              /\ Last.annot_trees = {}
              /\ Last.min_changes = fitch_pass1(pre).min_changes
        /\ (R >= 1 /\ R <= MaxAmbiguous) => Cardinality(evaluated) = Pow2(R)

C5_Witness == Returned /\ R > MaxAmbiguous /\ Last.min_changes > 0

\* C6: the input tree is the same after a call as before it, and two calls
\* on the same tree return the same min_changes and, up to order, the same
\* annotated trees.
C6_InputNotMutated ==
    /\ pc # "idle" => heap[InputRef] = pre
    /\ \A i, j \in DOMAIN rets :
          /\ rets[i].min_changes = rets[j].min_changes
          /\ BagOf(rets[i].annot_trees) = BagOf(rets[j].annot_trees)

C6_Witness ==
    /\ Returned
    /\ Len(rets) = 2
    /\ R >= 1
    /\ rets[2].annot_trees # {}
    /\ heap[tree] # heap[InputRef]

\* C7: in every returned tree every state is a singleton, no node is flagged
\* both ways, and a non-root node is flagged gain exactly when its parent is
\* {0} and it is {1}, loss exactly when its parent is {1} and it is {0}.
C7_FlagsMatchStates ==
    Returned =>
        \A a \in Last.annot_trees : \A i \in Nodes(a.tree) :
            LET t == a.tree
                p == t.parent[i]
            IN  /\ Cardinality(t.state[i]) = 1
                /\ ~(t.gain[i] /\ t.loss[i])
                /\ p # 0 =>
                      /\ t.gain[i] <=> (t.state[p] = {0} /\ t.state[i] = {1})
                      /\ t.loss[i] <=> (t.state[p] = {1} /\ t.state[i] = {0})

\* C8: with 1 to 10 distinct ambiguous nodes the combinations that pass
\* _unique_nodes are the 2^R assignments of one value to each ambiguous node,
\* each once; before the veto the accepted set has one tree for each of them
\* whose tot_changes is min_changes and none for another, and with distinct
\* names that tree carries the assignment's values.
C8_EnumerationIsAllAssignments ==
    (pc \in {"veto", "done"} /\ R >= 1 /\ R <= MaxAmbiguous) =>
        /\ {AssignOf(e.combo) : e \in evaluated} =
               [AmbiguousSet(ambiguous_nodes) -> {0, 1}]
        /\ Cardinality(evaluated) = Pow2(R)
        /\ {a.id : a \in accepted} =
               {e.combo : e \in {x \in evaluated : x.tot_changes = min_changes}}
        /\ Cardinality(accepted) = Cardinality({a.id : a \in accepted})
        /\ DistinctNames(pre) =>
              \A a \in accepted : \A n \in AmbiguousSet(ambiguous_nodes) :
                  a.tree.state[n] = {AssignOf(a.id)[n]}

C8_Witness ==
    /\ pc = "veto"
    /\ R >= 2
    /\ Cardinality(accepted) >= 2
    /\ \E e \in evaluated : e.tot_changes # min_changes

\* C9: a non-root internal node whose parent's refined state is a subset of
\* its Pass-1 state is refined to a singleton and is not recorded ambiguous.
C9_SubsetParentGivesSingleton ==
    pc \in {"resolve", "veto", "done"} =>
        \A i \in Internals(Work) :
            (Work.parent[i] # 0 /\ Work.state[Work.parent[i]] \subseteq pass1_state[i]) =>
                /\ Cardinality(Work.state[i]) = 1
                /\ i \notin AmbiguousSet(ambiguous_nodes)

\* C9 as amended: if the parent's refined state is a singleton inside the
\* node's Pass-1 state, the node takes that singleton and is not recorded
\* ambiguous; if the parent's refined state is {0,1}, and so ambiguous
\* itself, the node keeps {0,1} and is recorded ambiguous.
C9_ResolvedParentGivesSingleton ==
    pc \in {"resolve", "veto", "done"} =>
        \A i \in Internals(Work) :
            LET A == Work.state[Work.parent[i]]
            IN  (Work.parent[i] # 0 /\ A \subseteq pass1_state[i]) =>
                    /\ Work.state[i] = A
                    /\ Cardinality(A) = 1 => i \notin AmbiguousSet(ambiguous_nodes)
                    /\ Cardinality(A) = 2 => i \in AmbiguousSet(ambiguous_nodes)

C9_Witness ==
    /\ pc = "resolve"
    /\ \E i \in Internals(Work) :
          /\ Work.parent[i] # 0
          /\ Cardinality(Work.state[Work.parent[i]]) = 1
          /\ pass1_state[i] = {0, 1}
          /\ Work.state[i] = Work.state[Work.parent[i]]

\* C10: with pairwise distinct node names no returned tree has its root
\* resolved to {1} or flagged gain.
C10_RootNeverGained ==
    (Returned /\ DistinctNames(pre)) =>
        \A a \in Last.annot_trees :
            /\ a.tree.state[Root(a.tree)] # {1}
            /\ ~a.tree.gain[Root(a.tree)]

C10_Witness ==
    /\ Returned
    /\ DistinctNames(pre)
    /\ Root(Work) \in AmbiguousSet(ambiguous_nodes)
    /\ Last.annot_trees # {}
    /\ \E e \in evaluated : AssignOf(e.combo)[Root(Work)] = 1

====
